---- MODULE Spec2Model ----
(***************************************************************************)
(* LicenseWall: dependency graph scanner, license policy evaluator and the *)
(* command line gate built on them.                                        *)
(*                                                                         *)
(* JavaScript strings are modelled as sequences of one-character strings,  *)
(* so that concatenation, prefix tests, substring tests, case folding and  *)
(* splitting are computed character by character as the code does.         *)
(***************************************************************************)
EXTENDS Integers, Sequences, FiniteSets, TLC

VARIABLES
    pc,          \* position of the running command / function
    fs,          \* the project directory: the tree of installed packages
    policyFile,  \* content of the policy file on disk, or its absence
    policy,      \* the policy object in use
    exprs,       \* how each dependency's license expression was written
    deps,        \* Dep[] handed to the policy functions
    results,     \* PolicyResult[] returned by evaluatePolicy
    todo,        \* pending processDep calls of the walk, in call order
    seen,        \* scanDeep's Map<string, ScannedDep>, in insertion order
    scanned,     \* the array scanDeep returned
    violations,  \* Violation[] returned by checkPolicy
    exitCode,    \* process exit code of the check command
    subject,     \* second argument given to generateSBOM, if any
    sbom,        \* the document generateSBOM returned
    configFile,  \* content of .licensewallrc.json in the target directory
    error,       \* the error thrown by the last initConfig call, if any
    args,        \* the arguments of the last initConfig call
    depFiles,    \* the candidate license files in a package directory
    detection,   \* the value detectLicenseFromFile returned
    listing,     \* the order in which readdirSync lists a directory
    first        \* the array scanDeep returned under the other listing order

vars == <<pc, fs, policyFile, policy, exprs, deps, results, todo, seen,
          scanned, violations, exitCode, subject, sbom, configFile, error, args,
                   depFiles, detection,
                   listing, first>>

(***************************************************************************)
(* Bounds of the model.                                                    *)
(***************************************************************************)
MaxLinks == 2
MaxParts == 2
MaxList == 1

(***************************************************************************)
(* Strings.                                                                *)
(***************************************************************************)
UpperChars == <<"A","B","C","D","E","F","G","H","I","J","K","L","M",
                "N","O","P","Q","R","S","T","U","V","W","X","Y","Z">>
LowerChars == <<"a","b","c","d","e","f","g","h","i","j","k","l","m",
                "n","o","p","q","r","s","t","u","v","w","x","y","z">>

LetterIndex(alphabet, c) ==
    IF \E k \in 1..Len(alphabet) : alphabet[k] = c
    THEN CHOOSE k \in 1..Len(alphabet) : alphabet[k] = c
    ELSE 0

LowerOf == [c \in {UpperChars[k] : k \in 1..Len(UpperChars)} |->
               LowerChars[LetterIndex(UpperChars, c)]]
UpperOf == [c \in {LowerChars[k] : k \in 1..Len(LowerChars)} |->
               UpperChars[LetterIndex(LowerChars, c)]]

toLowerCase(s) ==
    [i \in 1..Len(s) |-> IF s[i] \in DOMAIN LowerOf THEN LowerOf[s[i]] ELSE s[i]]

toUpperCase(s) ==
    [i \in 1..Len(s) |-> IF s[i] \in DOMAIN UpperOf THEN UpperOf[s[i]] ELSE s[i]]

\* the characters the regular expression class \s and String.trim() remove
IsWhitespace(c) == c \in {" ", "\t", "\n", "\r", "\f"}

startsWith(s, p) == Len(p) <= Len(s) /\ SubSeq(s, 1, Len(p)) = p

includes(s, p) ==
    \E i \in 0..(Len(s) - Len(p)) : SubSeq(s, i + 1, i + Len(p)) = p

RECURSIVE SkipWhitespace(_, _)
\* first index >= i of s that holds no whitespace, Len(s) + 1 when none
SkipWhitespace(s, i) ==
    IF i > Len(s) \/ ~IsWhitespace(s[i]) THEN i ELSE SkipWhitespace(s, i + 1)

RECURSIVE SkipWhitespaceBack(_, _)
\* last index <= j of s that holds no whitespace, 0 when none
SkipWhitespaceBack(s, j) ==
    IF j < 1 \/ ~IsWhitespace(s[j]) THEN j ELSE SkipWhitespaceBack(s, j - 1)

trim(s) == SubSeq(s, SkipWhitespace(s, 1), SkipWhitespaceBack(s, Len(s)))

\* /\s+OR\s+/ tried at index i: the index after the match, 0 when no match
MatchSeparatorAt(s, i) ==
    IF ~IsWhitespace(s[i]) THEN 0
    ELSE LET q == SkipWhitespace(s, i)
         IN  IF /\ q + 2 <= Len(s)
                /\ s[q] = "O"
                /\ s[q + 1] = "R"
                /\ IsWhitespace(s[q + 2])
             THEN SkipWhitespace(s, q + 2)
             ELSE 0

RECURSIVE SplitFrom(_, _, _)
\* String.split(/\s+OR\s+/): `start` opens the current piece, i scans
SplitFrom(s, start, i) ==
    IF i > Len(s) THEN <<SubSeq(s, start, Len(s))>>
    ELSE LET after == MatchSeparatorAt(s, i)
         IN  IF after > 0
             THEN <<SubSeq(s, start, i - 1)>> \o SplitFrom(s, after, after)
             ELSE SplitFrom(s, start, i + 1)

Map(f(_), xs) == [i \in 1..Len(xs) |-> f(xs[i])]

IsTruthyString(s) == s # <<>>

(***************************************************************************)
(* License identifiers used as inputs.                                     *)
(***************************************************************************)
MIT == <<"M","I","T">>
MitLower == <<"m","i","t">>
ISC == <<"I","S","C">>
WTFPL == <<"W","T","F","P","L">>
UNKNOWN == <<"U","N","K","N","O","W","N">>
UnknownLower == <<"u","n","k","n","o","w","n">>
Apache20 == <<"A","p","a","c","h","e","-","2",".","0">>
GPL3 == <<"G","P","L","-","3">>
GPL30 == <<"G","P","L","-","3",".","0">>
GPL30custom == <<"G","P","L","-","3","0","-","c","u","s","t","o","m">>
AGPL30 == <<"A","G","P","L","-","3",".","0">>
Agpl30Lower == <<"a","g","p","l","-","3",".","0">>
AGPL30only == <<"A","G","P","L","-","3",".","0","-","o","n","l","y">>
SSPL10 == <<"S","S","P","L","-","1",".","0">>
EUPL == <<"E","U","P","L">>

(***************************************************************************)
(* policy.ts                                                               *)
(***************************************************************************)
\* the expression taken whole, never split
parseSPDXPartsWhole(license) ==
    SelectSeq(<<trim(license)>>, IsTruthyString)

parseSPDXParts(license) ==
    SelectSeq(Map(trim, SplitFrom(license, 1, 1)), IsTruthyString)

matchesLicenseNoHyphen(licensePart, listItem) ==
    LET a == toLowerCase(licensePart)
        b == toLowerCase(listItem)
    IN  a = b \/ startsWith(a, b)

matchesLicense(licensePart, listItem) ==
    LET a == toLowerCase(licensePart)
        b == toLowerCase(listItem)
    IN  a = b \/ startsWith(a, b \o <<"-">>)

matchesAnyInList(licenseParts, list) ==
    \E p \in 1..Len(licenseParts) :
        \E k \in 1..Len(list) : matchesLicense(licenseParts[p], list[k])

\* the allow list consulted before the deny list
VerdictAllowFirst(pol, dep) ==
    LET parts == parseSPDXParts(dep.license)
    IN  IF Len(pol.allow) > 0 /\ matchesAnyInList(parts, pol.allow)
        THEN "allowed"
        ELSE IF Len(pol.deny) > 0 /\ matchesAnyInList(parts, pol.deny)
             THEN "denied"
             ELSE IF Len(pol.allow) > 0 THEN "unknown"
                  ELSE IF pol.failOnUnknown /\ dep.license = UNKNOWN
                       THEN "unknown" ELSE "allowed"

\* UNKNOWN recognised in any part of the expression instead of exactly
VerdictUnknownPart(pol, dep) ==
    LET parts == parseSPDXParts(dep.license)
    IN  IF Len(pol.deny) > 0 /\ matchesAnyInList(parts, pol.deny)
        THEN "denied"
        ELSE IF Len(pol.allow) > 0
             THEN IF matchesAnyInList(parts, pol.allow)
                  THEN "allowed" ELSE "unknown"
             ELSE IF pol.failOnUnknown /\ matchesAnyInList(parts, <<UNKNOWN>>)
                  THEN "unknown"
                  ELSE "allowed"

\* an UNKNOWN license outside the allow list flagged only under failOnUnknown
VerdictUnknownFlagGated(pol, dep) ==
    LET parts == parseSPDXParts(dep.license)
    IN  IF Len(pol.deny) > 0 /\ matchesAnyInList(parts, pol.deny)
        THEN "denied"
        ELSE IF Len(pol.allow) > 0
             THEN IF matchesAnyInList(parts, pol.allow)
                  THEN "allowed"
                  ELSE IF dep.license = UNKNOWN /\ ~pol.failOnUnknown
                       THEN "allowed" ELSE "unknown"
             ELSE IF pol.failOnUnknown /\ dep.license = UNKNOWN
                  THEN "unknown"
                  ELSE "allowed"

Verdict(pol, dep) ==
    LET parts == parseSPDXParts(dep.license)
    IN  IF Len(pol.deny) > 0 /\ matchesAnyInList(parts, pol.deny)
        THEN "denied"
        ELSE IF Len(pol.allow) > 0
             THEN IF matchesAnyInList(parts, pol.allow)
                  THEN "allowed" ELSE "unknown"
             ELSE IF pol.failOnUnknown /\ dep.license = UNKNOWN
                  THEN "unknown"
                  ELSE "allowed"

evaluatePolicy(pol, dependencies) ==
    [i \in 1..Len(dependencies) |->
        [name |-> dependencies[i].name,
         version |-> dependencies[i].version,
         license |-> dependencies[i].license,
         verdict |-> Verdict(pol, dependencies[i])]]

(***************************************************************************)
(* Inputs of the policy evaluator.  A license expression is written as a   *)
(* list of identifiers joined by separators, optionally padded with blanks;*)
(* the dependency list holds one dependency per suffix of the expression.  *)
(***************************************************************************)
RECURSIVE Ascending(_)
\* the members of a set of indices, in increasing order
Ascending(S) ==
    IF S = {} THEN <<>>
    ELSE LET m == CHOOSE x \in S : \A y \in S : x <= y
         IN  <<m>> \o Ascending(S \ {m})

\* the sub-lists of `master` of at most n entries
ListsOf(master, n) ==
    {[i \in 1..Len(Ascending(S)) |-> master[Ascending(S)[i]]] :
        S \in {T \in SUBSET (1..Len(master)) : Cardinality(T) <= n}}

SepSpaces == <<" ","O","R"," ">>
SepTabs == <<"\t","O","R","\t">>
SepLower == <<" ","o","r"," ">>

Atoms == {MitLower, GPL30, GPL30custom, AGPL30only, UNKNOWN}
Separators == {SepSpaces, SepTabs, SepLower}
AllowEntries == <<MIT, AGPL30, GPL3>>
DenyEntries == <<GPL30, AGPL30>>

Exprs ==
    UNION {[atoms : [1..n -> Atoms], seps : [1..(n - 1) -> Separators],
            pad : BOOLEAN] : n \in 1..MaxParts}

RECURSIVE Join(_, _)
Join(atoms, seps) ==
    IF Len(atoms) = 1 THEN atoms[1]
    ELSE atoms[1] \o seps[1] \o Join(Tail(atoms), Tail(seps))

Written(e) ==
    IF e.pad THEN <<" ">> \o Join(e.atoms, e.seps) \o <<" ">>
    ELSE Join(e.atoms, e.seps)

Suffixes(e) ==
    [i \in 1..Len(e.atoms) |->
        [atoms |-> SubSeq(e.atoms, i, Len(e.atoms)),
         seps |-> SubSeq(e.seps, i, Len(e.seps)),
         pad |-> e.pad]]

DepName(i) == <<"d", "e", "p">> \o <<LowerChars[i]>>
Version100 == <<"1",".","0",".","0">>
MockPath == <<0>>

makeDep(i, e) ==
    [name |-> DepName(i), version |-> Version100, license |-> Written(e),
     path |-> MockPath]

Policies ==
    [allow : ListsOf(AllowEntries, MaxList),
     deny : ListsOf(DenyEntries, MaxList),
     failOnUnknown : BOOLEAN]

Idle == <<>>

InitPolicy ==
    /\ pc = "evaluatePolicy"
    /\ \E e \in Exprs :
         /\ exprs = Suffixes(e)
         /\ deps = [i \in 1..Len(e.atoms) |-> makeDep(i, Suffixes(e)[i])]
    /\ policy \in Policies
    /\ results = Idle
    /\ fs = Idle /\ policyFile = Idle /\ todo = Idle /\ seen = Idle
    /\ scanned = Idle /\ violations = Idle /\ exitCode = -1 /\ listing = "ascending" /\ first = Idle
    /\ subject = Idle /\ sbom = Idle /\ configFile = Idle /\ error = Idle
    /\ args = Idle
    /\ depFiles = Idle /\ detection = Idle

EvaluatePolicy ==
    /\ pc = "evaluatePolicy"
    /\ results' = evaluatePolicy(policy, deps)
    /\ pc' = "evaluated"
    /\ UNCHANGED <<fs, policyFile, policy, exprs, deps, todo, seen, scanned,
                   violations, exitCode,
                   subject, sbom, configFile, error, args,
                   depFiles, detection,
                   listing, first>>

NextPolicy == EvaluatePolicy

SpecPolicy == InitPolicy /\ [][NextPolicy]_vars

(***************************************************************************)
(* scanner.ts: manifests and license files.                                *)
(*                                                                         *)
(* A JSON value of a manifest field is a record: t is "absent", "str",     *)
(* "obj" or "arr"; v is the string, or the object's type; typed tells      *)
(* whether an object has a type key; items are the elements of an array.   *)
(***************************************************************************)
TxtApache == <<"A","P","A","C","H","E">>
TxtVersion20 == <<"V","E","R","S","I","O","N"," ","2",".","0">>
TxtApache20 == <<"A","P","A","C","H","E","-","2",".","0">>
TxtMitLicense == <<"M","I","T"," ","L","I","C","E","N","S","E">>
TxtPermissionGranted == <<"P","E","R","M","I","S","S","I","O","N"," ","I",
    "S"," ","H","E","R","E","B","Y"," ","G","R","A","N","T","E","D",","," ",
    "F","R","E","E"," ","O","F"," ","C","H","A","R","G","E">>
TxtIscLicense == <<"I","S","C"," ","L","I","C","E","N","S","E">>
TxtIsc == <<"I","S","C">>
TxtPermissionToUse == <<"P","E","R","M","I","S","S","I","O","N"," ","T","O",
    " ","U","S","E">>
TxtBsd3Space == <<"B","S","D"," ","3","-","C","L","A","U","S","E">>
TxtBsd3Hyphen == <<"B","S","D","-","3","-","C","L","A","U","S","E">>
TxtBsd2Space == <<"B","S","D"," ","2","-","C","L","A","U","S","E">>
TxtBsd2Hyphen == <<"B","S","D","-","2","-","C","L","A","U","S","E">>
TxtGnuAffero == <<"G","N","U"," ","A","F","F","E","R","O"," ","G","E","N",
    "E","R","A","L"," ","P","U","B","L","I","C"," ","L","I","C","E","N","S",
    "E">>
TxtVersion3 == <<"V","E","R","S","I","O","N"," ","3">>
TxtGnuGpl == <<"G","N","U"," ","G","E","N","E","R","A","L"," ","P","U","B",
    "L","I","C"," ","L","I","C","E","N","S","E">>
TxtVersion2 == <<"V","E","R","S","I","O","N"," ","2">>
TxtGnuLesser == <<"G","N","U"," ","L","E","S","S","E","R"," ","G","E","N",
    "E","R","A","L"," ","P","U","B","L","I","C"," ","L","I","C","E","N","S",
    "E">>
TxtMozilla == <<"M","O","Z","I","L","L","A"," ","P","U","B","L","I","C"," ",
    "L","I","C","E","N","S","E">>
Txt20 == <<"2",".","0">>
TxtTheUnlicense == <<"T","H","E"," ","U","N","L","I","C","E","N","S","E">>
TxtUnlicense == <<"U","N","L","I","C","E","N","S","E">>
TxtPublicDomain == <<"P","U","B","L","I","C"," ","D","O","M","A","I","N">>
TxtMit == <<"M","I","T">>
TxtBsd == <<"B","S","D">>
TxtGpl == <<"G","P","L">>
BSD3Clause == <<"B","S","D","-","3","-","C","l","a","u","s","e">>
BSD2Clause == <<"B","S","D","-","2","-","C","l","a","u","s","e">>
GPL20 == <<"G","P","L","-","2",".","0">>
LGPL == <<"L","G","P","L">>
MPL20 == <<"M","P","L","-","2",".","0">>
Unlicense == <<"U","n","l","i","c","e","n","s","e">>
BSD == <<"B","S","D">>
GPL == <<"G","P","L">>
DefaultVersion == <<"0",".","0",".","0">>
ObjectObject == <<"[","o","b","j","e","c","t"," ","O","b","j","e","c","t",
    "]">>
NullString == <<"n","u","l","l">>
OrSeparator == <<" ","O","R"," ">>
MitFileText == <<"P","e","r","m","i","s","s","i","o","n"," ","i","s"," ",
    "h","e","r","e","b","y"," ","g","r","a","n","t","e","d",","," ","f","r",
    "e","e"," ","o","f"," ","c","h","a","r","g","e">>
PlainFileText == <<"A","l","l"," ","r","i","g","h","t","s"," ","r","e","s",
    "e","r","v","e","d">>

Absent == [t |-> "absent", v |-> <<>>, typed |-> FALSE, items |-> <<>>]
JsonString(s) == [t |-> "str", v |-> s, typed |-> FALSE, items |-> <<>>]
JsonTyped(s) == [t |-> "obj", v |-> s, typed |-> TRUE, items |-> <<>>]
JsonArray(xs) == [t |-> "arr", v |-> <<>>, typed |-> FALSE, items |-> xs]

\* JavaScript's !raw
Falsy(raw) == raw.t = "absent" \/ (raw.t = "str" /\ raw.v = <<>>)

\* a || b
OrElse(a, b) == IF Falsy(a) THEN b ELSE a

RECURSIVE JoinWith(_, _)
JoinWith(xs, sep) ==
    IF Len(xs) = 0 THEN <<>>
    ELSE IF Len(xs) = 1 THEN xs[1]
    ELSE xs[1] \o sep \o JoinWith(Tail(xs), sep)

\* typeof l === 'object' && l?.type ? l.type : String(l)
ElementString(l) ==
    IF l.t = "obj" /\ l.typed /\ l.v # <<>> THEN l.v
    ELSE IF l.t = "str" THEN l.v
    ELSE IF l.t = "obj" THEN ObjectObject
    ELSE NullString

normalizeLicense(raw) ==
    IF Falsy(raw) THEN UNKNOWN
    ELSE IF raw.t = "str" THEN raw.v
    ELSE IF raw.t = "obj" /\ raw.typed THEN raw.v
    ELSE IF raw.t = "arr" THEN JoinWith(Map(ElementString, raw.items), OrSeparator)
    ELSE UNKNOWN

Digits == {"0","1","2","3","4","5","6","7","8","9"}
IsWordChar(c) ==
    c \in DOMAIN LowerOf \/ c \in DOMAIN UpperOf \/ c \in Digits \/ c = "_"

\* the regular expression /\bW\b/ for a word W of word characters
HasWord(s, w) ==
    \E i \in 0..(Len(s) - Len(w)) :
        /\ SubSeq(s, i + 1, i + Len(w)) = w
        /\ i = 0 \/ ~IsWordChar(s[i])
        /\ i + Len(w) = Len(s) \/ ~IsWordChar(s[i + Len(w) + 1])

NoLicense == <<>>

\* the ordered rules applied to the upper-cased content of a license file
ClassifyLicenseText(upper) ==
    IF includes(upper, TxtApache)
         /\ (includes(upper, TxtVersion20) \/ includes(upper, TxtApache20))
    THEN Apache20
    ELSE IF includes(upper, TxtMitLicense) \/ includes(upper, TxtPermissionGranted)
    THEN MIT
    ELSE IF includes(upper, TxtIscLicense)
              \/ (includes(upper, TxtIsc) /\ includes(upper, TxtPermissionToUse))
    THEN ISC
    ELSE IF includes(upper, TxtBsd3Space) \/ includes(upper, TxtBsd3Hyphen)
    THEN BSD3Clause
    ELSE IF includes(upper, TxtBsd2Space) \/ includes(upper, TxtBsd2Hyphen)
    THEN BSD2Clause
    ELSE IF includes(upper, TxtGnuAffero) /\ includes(upper, TxtVersion3)
    THEN AGPL30
    ELSE IF includes(upper, TxtGnuGpl) /\ includes(upper, TxtVersion3)
    THEN GPL30
    ELSE IF includes(upper, TxtGnuGpl) /\ includes(upper, TxtVersion2)
    THEN GPL20
    ELSE IF includes(upper, TxtGnuLesser) THEN LGPL
    ELSE IF includes(upper, TxtMozilla) /\ includes(upper, Txt20) THEN MPL20
    ELSE IF includes(upper, TxtTheUnlicense)
              \/ (includes(upper, TxtUnlicense) /\ includes(upper, TxtPublicDomain))
    THEN Unlicense
    ELSE IF HasWord(upper, TxtMit) THEN MIT
    ELSE IF HasWord(upper, TxtIsc) THEN ISC
    ELSE IF HasWord(upper, TxtBsd) THEN BSD
    ELSE IF HasWord(upper, TxtGpl) THEN GPL
    ELSE IF HasWord(upper, TxtApache) THEN Apache20
    ELSE NoLicense

\* LICENSE, LICENSE.md, LICENSE.txt, LICENCE, LICENCE.md, LICENCE.txt,
\* COPYING, COPYING.md: the candidates are numbered in this order
NumLicenseFiles == 8

RECURSIVE DetectFromNoSkip(_, _)
\* the loop giving up at a candidate that cannot be read
DetectFromNoSkip(files, k) ==
    IF k > NumLicenseFiles THEN NoLicense
    ELSE IF ~\E f \in files : f.file = k THEN DetectFromNoSkip(files, k + 1)
    ELSE LET f == CHOOSE g \in files : g.file = k
         IN  IF ~f.readable THEN NoLicense
             ELSE ClassifyLicenseText(toUpperCase(f.content))

RECURSIVE DetectFrom(_, _)
\* the loop over the candidate file names from number k on; `files` are the
\* candidates present in the directory: [file, readable, content]
DetectFrom(files, k) ==
    IF k > NumLicenseFiles THEN NoLicense
    ELSE IF ~\E f \in files : f.file = k THEN DetectFrom(files, k + 1)
    ELSE LET f == CHOOSE g \in files : g.file = k
         IN  IF ~f.readable THEN DetectFrom(files, k + 1)
             ELSE ClassifyLicenseText(toUpperCase(f.content))

detectLicenseFromFile(files) == DetectFrom(files, 1)

(***************************************************************************)
(* The directories found in package stores.                                *)
(***************************************************************************)
Version1 == <<"1">>
Version2 == <<"2">>
Version1At2 == <<"1","@","2">>
NameA == <<"a">>
NameB == <<"b">>
NameAAt1 == <<"a","@","1">>
NameX == <<"x">>
LicenseFile == 1

Package(name, version, license, files) ==
    [name |-> name, manifest |-> "ok", version |-> version, license |-> license,
     licenses |-> Absent, files |-> files, store |-> "own"]

\* a package whose node_modules is a symbolic link to the store that holds
\* the package itself (node_modules -> ..)
LinkedBack(name, version, license) ==
    [Package(name, version, license, {}) EXCEPT !.store = "containing"]

\* a directory whose package.json is missing, is not JSON, or holds the
\* JSON text null
NoManifest(name, manifest) ==
    [name |-> name, manifest |-> manifest, version |-> <<>>, license |-> Absent,
     licenses |-> Absent, files |-> {}, store |-> "own"]

Catalog ==
    <<Package(NameA, Version1, JsonString(MIT), {}),
      Package(NameA, Version1At2, Absent,
              {[file |-> LicenseFile, readable |-> TRUE, content |-> MitFileText]}),
      Package(NameAAt1, Version2, JsonString(GPL30), {}),
      Package(NameB, <<>>, Absent, {}),
      Package(NameX, Version1, JsonString(AGPL30), {}),
      Package(NameB, Version1, JsonString(ISC),
              {[file |-> LicenseFile, readable |-> TRUE, content |-> MitFileText]}),
      Package(NameX, Version1, Absent,
              {[file |-> LicenseFile, readable |-> TRUE, content |-> PlainFileText]}),
      NoManifest(NameB, "missing"),
      NoManifest(NameX, "unparseable"),
      NoManifest(NameB, "null"),
      LinkedBack(NameB, Version1, JsonString(MIT))>>

ScanCatalog == {1, 2, 3, 4}
CheckCatalog == {1, 4, 5}
LicenseCatalog == {2, 4, 6, 7}
ManifestCatalog == {1, 8, 9, 10}
LinkCatalog == {1, 4, 11}
OrderCatalog == {1, 4, 5, 7}

(***************************************************************************)
(* The project directory.  fs.exists tells whether <root>/node_modules     *)
(* exists; fs.nodes lists the directory entries below it; Catalog holds    *)
(* the directories an entry can be, and dir names one.  Entry i lies in    *)
(* the directory of entry parent (0: the root node_modules): in its nested *)
(* node_modules when the parent is a package directory, in the parent      *)
(* itself when the parent is a scope directory.  Entries are numbered in   *)
(* the order readdirSync lists them, parents before children.              *)
(***************************************************************************)
Nodes == 1..Len(fs.nodes)

\* the directory that entry i is: its name, manifest and license files
Dir(i) == Catalog[fs.nodes[i].dir]

\* the entries of the directory of p, in listing order
Reverse(xs) == [k \in 1..Len(xs) |-> xs[Len(xs) + 1 - k]]

\* readdirSync(nmDir): the entries in the order the file system lists them
Children(p) ==
    LET entries == Ascending({i \in Nodes : fs.nodes[i].parent = p})
    IN  IF listing = "descending" THEN Reverse(entries) ELSE entries

NoParent == <<>>

IsHidden(name) == startsWith(name, <<".">>)
IsScope(name) == startsWith(name, <<"@">>)

\* readPkg: the Dep read from a package directory, Idle for null
readPkg(i, name, path) ==
    IF Dir(i).manifest # "ok" THEN Idle
    ELSE <<[name |-> name,
            version |-> IF Dir(i).version = <<>>
                        THEN DefaultVersion ELSE Dir(i).version,
            license |-> normalizeLicense(
                            OrElse(Dir(i).license, Dir(i).licenses)),
            path |-> path]>>

RECURSIVE FlatMap(_, _)
FlatMap(f(_), xs) ==
    IF Len(xs) = 0 THEN <<>> ELSE f(xs[1]) \o FlatMap(f, Tail(xs))

\* scanNodeModules: the packages of the root node_modules only
scanNodeModules ==
    IF ~fs.exists THEN <<>>
    ELSE LET entry(i) ==
                 IF IsHidden(Dir(i).name) THEN <<>>
                 ELSE IF IsScope(Dir(i).name)
                      THEN LET sub(j) ==
                                   readPkg(j, Dir(i).name \o <<"/">>
                                                  \o Dir(j).name, <<i, j>>)
                           IN  FlatMap(sub, Children(i))
                      ELSE readPkg(i, Dir(i).name, <<i>>)
         IN  FlatMap(entry, Children(0))

(***************************************************************************)
(* scanDeep.  A pending processDep call is [node, name, depth, parent,     *)
(* path]; todo holds the calls still to be made, in the order the          *)
(* depth-first recursion makes them.                                       *)
(***************************************************************************)
\* walkNodeModules: the processDep calls made for the entries of the
\* directory of p
walkNodeModules(p, path, depth, parent) ==
    LET call(i, name, at) ==
            <<[node |-> i, name |-> name, depth |-> depth, parent |-> parent,
               path |-> at]>>
        entry(i) ==
            IF IsHidden(Dir(i).name) THEN <<>>
            ELSE IF IsScope(Dir(i).name)
                 THEN LET sub(j) ==
                              call(j, Dir(i).name \o <<"/">> \o Dir(j).name,
                                   path \o <<i, j>>)
                      IN  FlatMap(sub, Children(i))
                 ELSE call(i, Dir(i).name, path \o <<i>>)
    IN  FlatMap(entry, Children(p))

\* the store in which entry i lies, 0 for the root store
ContainingStore(i) ==
    LET p == fs.nodes[i].parent
    IN  IF p # 0 /\ IsScope(Dir(p).name) THEN fs.nodes[p].parent ELSE p

\* the directory that join(depDir, 'node_modules') resolves to
StoreOf(i) == IF Dir(i).store = "own" THEN i ELSE ContainingStore(i)

\* the symbolic links a path goes through
LinksOn(path) ==
    Cardinality({k \in 1..Len(path) : Dir(path[k]).store # "own"})

\* existsSync(nmDir): the operating system resolves a path through at most
\* MaxLinks symbolic links
Resolves(path) == LinksOn(path) <= MaxLinks

\* `${name}@${version}`
KeyOf(name, version) == name \o <<"@">> \o version

Find(key) ==
    IF \E k \in 1..Len(seen) : seen[k].key = key
    THEN CHOOSE k \in 1..Len(seen) : seen[k].key = key
    ELSE 0

Contains(xs, x) == \E k \in 1..Len(xs) : xs[k] = x

Merge(existing, depth, parent) ==
    [existing EXCEPT
        !.dependedBy = IF parent # NoParent /\ ~Contains(@, parent)
                       THEN Append(@, parent) ELSE @,
        !.depth = IF depth < @ THEN depth ELSE @]

\* processDep with the detected license preferred to the declared one
RecordDetectedFirst(c) ==
    LET n == Dir(c.node)
        version == IF n.version = <<>> THEN DefaultVersion ELSE n.version
        declared == normalizeLicense(OrElse(n.license, n.licenses))
        detected == detectLicenseFromFile(n.files)
        license == IF detected # NoLicense THEN detected ELSE declared
        key == KeyOf(c.name, version)
        at == Find(key)
    IN  IF at > 0
        THEN [seen EXCEPT ![at] = Merge(@, c.depth, c.parent)]
        ELSE Append(seen,
                 [key |-> key, name |-> c.name, version |-> version,
                  license |-> license, path |-> c.path, depth |-> c.depth,
                  dependedBy |-> IF c.parent # NoParent
                                 THEN <<c.parent>> ELSE <<>>])

\* the map after processDep has handled call c (its manifest is readable)
Record(c) ==
    LET n == Dir(c.node)
        version == IF n.version = <<>> THEN DefaultVersion ELSE n.version
        declared == normalizeLicense(OrElse(n.license, n.licenses))
        detected == detectLicenseFromFile(n.files)
        license == IF declared = UNKNOWN /\ detected # NoLicense
                   THEN detected ELSE declared
        key == KeyOf(c.name, version)
        at == Find(key)
    IN  IF at > 0
        THEN [seen EXCEPT ![at] = Merge(@, c.depth, c.parent)]
        ELSE Append(seen,
                 [key |-> key, name |-> c.name, version |-> version,
                  license |-> license, path |-> c.path, depth |-> c.depth,
                  dependedBy |-> IF c.parent # NoParent
                                 THEN <<c.parent>> ELSE <<>>])

\* Array.from(seen.values())
Values(map) ==
    [k \in 1..Len(map) |->
        [name |-> map[k].name, version |-> map[k].version,
         license |-> map[k].license, path |-> map[k].path,
         depth |-> map[k].depth, dependedBy |-> map[k].dependedBy]]

\* scanDeep is entered: the map is created and the root store is listed
ScanDeepStart ==
    /\ pc = "scanDeep"
    /\ seen' = <<>>
    /\ todo' = IF fs.exists THEN walkNodeModules(0, <<>>, 0, NoParent) ELSE <<>>
    /\ pc' = "walking"
    /\ UNCHANGED <<fs, policyFile, policy, exprs, deps, results, scanned,
                   violations, exitCode,
                   subject, sbom, configFile, error, args,
                   depFiles, detection,
                   listing, first>>

\* one processDep call, up to the point where it recurses
ProcessDep ==
    /\ pc = "walking"
    /\ todo # <<>>
    /\ LET c == Head(todo)
       IN  IF Dir(c.node).manifest \in {"missing", "unparseable"}
           THEN /\ seen' = seen
                /\ todo' = Tail(todo)
                /\ pc' = pc
           ELSE IF Dir(c.node).manifest = "null"
           THEN \* JSON.parse returns null; pkg.version throws a TypeError
                \* outside the try block and scanDeep is left by the throw
                /\ seen' = seen
                /\ todo' = todo
                /\ pc' = "thrown"
           ELSE /\ seen' = Record(c)
                /\ todo' = (IF Resolves(c.path)
                            THEN walkNodeModules(StoreOf(c.node), c.path,
                                                 c.depth + 1, c.name)
                            ELSE <<>>)
                               \o Tail(todo)
                /\ pc' = pc
    /\ UNCHANGED <<fs, policyFile, policy, exprs, deps, results, scanned,
                   violations, exitCode,
                   subject, sbom, configFile, error, args,
                   depFiles, detection,
                   listing, first>>

\* the outermost walkNodeModules has returned
ScanDeepReturn ==
    /\ pc = "walking"
    /\ todo = <<>>
    /\ scanned' = Values(seen)
    /\ pc' = "scanned"
    /\ UNCHANGED <<fs, policyFile, policy, exprs, deps, results, todo, seen,
                   violations, exitCode,
                   subject, sbom, configFile, error, args,
                   depFiles, detection,
                   listing, first>>

(***************************************************************************)
(* Project directories given to the scanner.                               *)
(***************************************************************************)
RECURSIVE Up(_, _)
\* entry i and the entries above it, and 0 for the root store
Up(parents, i) == IF i = 0 THEN {0} ELSE {i} \cup Up(parents, parents[i])

RECURSIVE ParentArrays(_)
\* the shapes of the trees of n entries, entries numbered in listing order
ParentArrays(n) ==
    IF n = 0 THEN {<<>>}
    ELSE UNION {{Append(p, q) : q \in Up(p, Len(p))} : p \in ParentArrays(n - 1)}

\* no directory holds two entries of one name
DistinctSiblings(nodes) ==
    \A i, j \in 1..Len(nodes) :
        (i < j /\ nodes[i].parent = nodes[j].parent)
            => Catalog[nodes[i].dir].name # Catalog[nodes[j].dir].name

Entry(parent, d) == [parent |-> parent, dir |-> d]

\* the project directories of at most n entries drawn from a catalog
Projects(catalog, n) ==
    {[exists |-> FALSE, nodes |-> <<>>]} \cup
    {[exists |-> TRUE, nodes |-> nodes] :
        nodes \in {ns \in UNION {{[i \in 1..m |-> Entry(p[i], d[i])] :
                                     p \in ParentArrays(m), d \in [1..m -> catalog]} :
                                 m \in 0..n} :
                      DistinctSiblings(ns)}}

MaxNodes == 4

InitScan ==
    /\ pc = "scanDeep"
    /\ fs \in Projects(ScanCatalog, MaxNodes)
    /\ todo = Idle /\ seen = Idle /\ scanned = Idle
    /\ policyFile = Idle /\ policy = Idle /\ exprs = Idle /\ deps = Idle
    /\ results = Idle /\ violations = Idle /\ exitCode = -1 /\ listing = "ascending" /\ first = Idle
    /\ subject = Idle /\ sbom = Idle /\ configFile = Idle /\ error = Idle
    /\ args = Idle
    /\ depFiles = Idle /\ detection = Idle

\* scanDeep on stores whose packages carry license files
InitLicense ==
    /\ pc = "scanDeep"
    /\ fs \in Projects(LicenseCatalog, MaxNodes)
    /\ todo = Idle /\ seen = Idle /\ scanned = Idle
    /\ policyFile = Idle /\ policy = Idle /\ exprs = Idle /\ deps = Idle
    /\ results = Idle /\ violations = Idle /\ exitCode = -1 /\ listing = "ascending" /\ first = Idle
    /\ subject = Idle /\ sbom = Idle /\ configFile = Idle /\ error = Idle
    /\ args = Idle
    /\ depFiles = Idle /\ detection = Idle

\* scanDeep on stores holding directories without a usable manifest
InitManifest ==
    /\ pc = "scanDeep"
    /\ fs \in Projects(ManifestCatalog, MaxNodes)
    /\ todo = Idle /\ seen = Idle /\ scanned = Idle
    /\ policyFile = Idle /\ policy = Idle /\ exprs = Idle /\ deps = Idle
    /\ results = Idle /\ violations = Idle /\ exitCode = -1 /\ listing = "ascending" /\ first = Idle
    /\ subject = Idle /\ sbom = Idle /\ configFile = Idle /\ error = Idle
    /\ args = Idle
    /\ depFiles = Idle /\ detection = Idle

\* scanDeep on stores holding a symbolic link back to an enclosing store
InitLinks ==
    /\ pc = "scanDeep"
    /\ fs \in Projects(LinkCatalog, MaxNodes)
    /\ todo = Idle /\ seen = Idle /\ scanned = Idle
    /\ policyFile = Idle /\ policy = Idle /\ exprs = Idle /\ deps = Idle
    /\ results = Idle /\ violations = Idle /\ exitCode = -1 /\ listing = "ascending" /\ first = Idle
    /\ subject = Idle /\ sbom = Idle /\ configFile = Idle /\ error = Idle
    /\ args = Idle
    /\ depFiles = Idle /\ detection = Idle

\* scanDeep on stores holding copies of one package with different licenses
InitOrder ==
    /\ pc = "scanDeep"
    /\ fs \in Projects(OrderCatalog, MaxNodes)
    /\ todo = Idle /\ seen = Idle /\ scanned = Idle
    /\ policyFile = Idle /\ policy = Idle /\ exprs = Idle /\ deps = Idle
    /\ results = Idle /\ violations = Idle /\ exitCode = -1
    /\ listing = "ascending" /\ first = Idle
    /\ subject = Idle /\ sbom = Idle /\ configFile = Idle /\ error = Idle
    /\ args = Idle
    /\ depFiles = Idle /\ detection = Idle

\* the same project directory is scanned again, its directories listed in
\* the opposite order
ScanAgain ==
    /\ pc = "scanned"
    /\ listing = "ascending"
    /\ first' = scanned
    /\ listing' = "descending"
    /\ pc' = "scanDeep"
    /\ UNCHANGED <<fs, policyFile, policy, exprs, deps, results, todo, seen,
                   scanned, violations, exitCode, subject, sbom, configFile,
                   error, args, depFiles, detection>>

NextOrder == ScanDeepStart \/ ProcessDep \/ ScanDeepReturn \/ ScanAgain

NextScan == ScanDeepStart \/ ProcessDep \/ ScanDeepReturn

Spec == InitScan /\ [][NextScan]_vars

SpecLicense == InitLicense /\ [][NextScan]_vars

SpecManifest == InitManifest /\ [][NextScan]_vars

SpecLinks == InitLinks /\ [][NextScan]_vars

SpecOrder == InitOrder /\ [][NextOrder]_vars

(***************************************************************************)
(* scanner.ts checkPolicy and index.ts: the check command.                 *)
(*                                                                         *)
(* A policy object read from JSON keeps, for allow and deny, whether the   *)
(* key is present and its entries.                                         *)
(***************************************************************************)
NoList == [present |-> FALSE, items |-> <<>>]
List(xs) == [present |-> TRUE, items |-> xs]

ListIncludesLicense(list, license) ==
    \E k \in 1..Len(list.items) : includes(license, list.items[k])

\* the body of checkPolicy's loop: the violations pushed for one dependency
ViolationOf(dep, pol) ==
    IF dep.license = UNKNOWN
    THEN <<[dep |-> dep, reason |-> "unknown-license"]>>
    ELSE IF pol.allow.present /\ Len(pol.allow.items) > 0
         THEN IF ~ListIncludesLicense(pol.allow, dep.license)
              THEN <<[dep |-> dep, reason |-> "not-in-allow-list"]>>
              ELSE <<>>
         ELSE IF pol.deny.present /\ Len(pol.deny.items) > 0
                   /\ ListIncludesLicense(pol.deny, dep.license)
              THEN <<[dep |-> dep, reason |-> "denied-by-policy"]>>
              ELSE <<>>

checkPolicy(dependencies, pol) ==
    LET one(dep) == ViolationOf(dep, pol)
    IN  FlatMap(one, dependencies)

\* index.ts: the policy used when no policy file exists
DefaultPolicy ==
    [allow |-> NoList, deny |-> List(<<AGPL30, GPL30, SSPL10, EUPL>>),
     failOnUnknown |-> FALSE]

\* index.ts loadPolicy, for a policy file that exists and parses or is absent
loadPolicy(file) == IF file.exists THEN file.json ELSE DefaultPolicy

NoPolicyFile == [exists |-> FALSE, parses |-> FALSE, json |-> Idle]
BrokenPolicyFile == [exists |-> TRUE, parses |-> FALSE, json |-> Idle]
PolicyFileOf(json) == [exists |-> TRUE, parses |-> TRUE, json |-> json]

\* check: const deps = scanNodeModules(dir)
CheckScan ==
    /\ pc = "check"
    /\ deps' = scanNodeModules
    /\ pc' = "check_loadPolicy"
    /\ UNCHANGED <<fs, policyFile, policy, exprs, results, todo, seen, scanned,
                   violations, exitCode,
                   subject, sbom, configFile, error, args,
                   depFiles, detection,
                   listing, first>>

\* check: const policy = loadPolicy(opts.policy, dir); JSON.parse throws on
\* a file that does not parse and the uncaught error ends the process
CheckLoadPolicy ==
    /\ pc = "check_loadPolicy"
    /\ IF policyFile.exists /\ ~policyFile.parses
       THEN /\ exitCode' = 1
            /\ pc' = "exited"
            /\ policy' = policy
       ELSE /\ policy' = loadPolicy(policyFile)
            /\ pc' = "check_checkPolicy"
            /\ exitCode' = exitCode
    /\ UNCHANGED <<fs, policyFile, exprs, deps, results, todo, seen, scanned,
                   violations,
                   subject, sbom, configFile, error, args,
                   depFiles, detection,
                   listing, first>>

\* check: const violations = checkPolicy(deps, policy)
CheckPolicy ==
    /\ pc = "check_checkPolicy"
    /\ violations' = checkPolicy(deps, policy)
    /\ pc' = "check_exit"
    /\ UNCHANGED <<fs, policyFile, policy, exprs, deps, results, todo, seen,
                   scanned, exitCode,
                   subject, sbom, configFile, error, args,
                   depFiles, detection,
                   listing, first>>

\* check: process.exit(1) when there are violations, process.exit(0) otherwise
CheckExit ==
    /\ pc = "check_exit"
    /\ exitCode' = IF Len(violations) > 0 THEN 1 ELSE 0
    /\ pc' = "exited"
    /\ UNCHANGED <<fs, policyFile, policy, exprs, deps, results, todo, seen,
                   scanned, violations,
                   subject, sbom, configFile, error, args,
                   depFiles, detection,
                   listing, first>>

PolicyObjects ==
    [allow : {NoList} \cup {List(xs) : xs \in ListsOf(<<AGPL30, MIT>>, MaxList)},
     deny : {NoList} \cup {List(xs) : xs \in ListsOf(<<AGPL30>>, MaxList)},
     failOnUnknown : BOOLEAN]

PolicyFiles ==
    {NoPolicyFile, BrokenPolicyFile} \cup {PolicyFileOf(j) : j \in PolicyObjects}

InitCheck ==
    /\ pc = "check"
    /\ fs \in Projects(CheckCatalog, MaxNodes)
    /\ policyFile \in PolicyFiles
    /\ policy = Idle /\ deps = Idle /\ violations = Idle /\ exitCode = -1 /\ listing = "ascending" /\ first = Idle
    /\ subject = Idle /\ sbom = Idle /\ configFile = Idle /\ error = Idle
    /\ args = Idle
    /\ depFiles = Idle /\ detection = Idle
    /\ todo = Idle /\ seen = Idle /\ scanned = Idle /\ exprs = Idle
    /\ results = Idle

NextCheck == CheckScan \/ CheckLoadPolicy \/ CheckPolicy \/ CheckExit

SpecCheck == InitCheck /\ [][NextCheck]_vars

(***************************************************************************)
(* policy.ts loadPolicy followed by evaluatePolicy.                        *)
(***************************************************************************)
\* policy.ts: the policy returned when the file does not exist
EmptyPolicy == [allow |-> <<>>, deny |-> <<>>, failOnUnknown |-> FALSE]

\* Array.isArray(raw.allow) ? raw.allow : []
ArrayOrEmpty(list) == IF list.present THEN list.items ELSE <<>>

\* policy.ts loadPolicy, for a policy file that parses or is absent
policyLoadPolicy(file) ==
    IF ~file.exists
    THEN EmptyPolicy
    ELSE [allow |-> ArrayOrEmpty(file.json.allow),
          deny |-> ArrayOrEmpty(file.json.deny),
          failOnUnknown |-> file.json.failOnUnknown = TRUE]

\* loadPolicy(filePath); JSON.parse throws on a file that does not parse
LoadPolicy ==
    /\ pc = "loadPolicy"
    /\ IF policyFile.exists /\ ~policyFile.parses
       THEN /\ pc' = "thrown"
            /\ policy' = policy
       ELSE /\ policy' = policyLoadPolicy(policyFile)
            /\ pc' = "loaded"
    /\ UNCHANGED <<fs, policyFile, exprs, deps, results, todo, seen, scanned,
                   violations, exitCode,
                   subject, sbom, configFile, error, args,
                   depFiles, detection,
                   listing, first>>

\* evaluatePolicy(deps, policy) on the loaded policy
EvaluateLoaded ==
    /\ pc = "loaded"
    /\ results' = evaluatePolicy(policy, deps)
    /\ pc' = "evaluated"
    /\ UNCHANGED <<fs, policyFile, policy, exprs, deps, todo, seen, scanned,
                   violations, exitCode,
                   subject, sbom, configFile, error, args,
                   depFiles, detection,
                   listing, first>>

StrongCopyleft == {AGPL30, GPL30, SSPL10, EUPL}

LoadLicenses == StrongCopyleft \cup {MIT, UNKNOWN}

InitLoad ==
    /\ pc = "loadPolicy"
    /\ policyFile \in PolicyFiles
    /\ \E l \in LoadLicenses :
          deps = <<[name |-> DepName(1), version |-> Version100,
                    license |-> l, path |-> MockPath]>>
    /\ policy = Idle /\ results = Idle /\ violations = Idle /\ exitCode = -1 /\ listing = "ascending" /\ first = Idle
    /\ subject = Idle /\ sbom = Idle /\ configFile = Idle /\ error = Idle
    /\ args = Idle
    /\ depFiles = Idle /\ detection = Idle
    /\ fs = Idle /\ todo = Idle /\ seen = Idle /\ scanned = Idle
    /\ exprs = Idle

NextLoad == LoadPolicy \/ EvaluateLoaded

SpecLoad == InitLoad /\ [][NextLoad]_vars

(***************************************************************************)
(* scanner.ts generateSBOM.                                                *)
(***************************************************************************)
PurlPrefix == <<"p","k","g",":","n","p","m","/">>

\* `pkg:npm/${d.name}@${d.version}`
Purl(d) == PurlPrefix \o d.name \o <<"@">> \o d.version

\* generateSBOM with the components left empty
generateSBOMNoComponents(dependencies, timestamp) ==
    [bomFormat |-> "CycloneDX",
     specVersion |-> "1.5",
     version |-> 1,
     metadata |-> [timestamp |-> timestamp,
                   tools |-> <<[vendor |-> "LicenseWall", name |-> "licensewall",
                                version |-> "1.0.0"]>>],
     components |-> <<>>]

\* generateSBOM(deps); timestamp is what new Date().toISOString() gives
generateSBOM(dependencies, timestamp) ==
    [bomFormat |-> "CycloneDX",
     specVersion |-> "1.5",
     version |-> 1,
     metadata |-> [timestamp |-> timestamp,
                   tools |-> <<[vendor |-> "LicenseWall", name |-> "licensewall",
                                version |-> "1.0.0"]>>],
     components |->
        [i \in 1..Len(dependencies) |->
            [type |-> "library",
             name |-> dependencies[i].name,
             version |-> dependencies[i].version,
             licenses |-> <<[license |-> [id |-> dependencies[i].license]]>>,
             purl |-> Purl(dependencies[i])]]]

Timestamps == {"2026-01-01T00:00:00.000Z", "2026-01-01T00:00:00.001Z"}

\* a call generateSBOM(deps) or generateSBOM(deps, subject): the function
\* declares one parameter and a second argument is not read
GenerateSBOM ==
    /\ pc = "generateSBOM"
    /\ \E t \in Timestamps : sbom' = generateSBOM(deps, t)
    /\ pc' = "generated"
    /\ UNCHANGED <<fs, policyFile, policy, exprs, deps, results, todo, seen,
                   scanned, violations, exitCode, subject, configFile, error, args,
                   depFiles, detection,
                   listing, first>>

MaxDeps == 2

NameScoped == <<"@","s","/","x">>
NoSubject == <<>>
MyApp == <<"m","y","-","a","p","p">>

SbomDeps ==
    [name : {NameX, NameScoped}, version : {Version100, Version1},
     license : {MIT, UNKNOWN}, path : {MockPath}]

InitSbom ==
    /\ pc = "generateSBOM"
    /\ deps \in UNION {[1..n -> SbomDeps] : n \in 0..MaxDeps}
    /\ subject \in {NoSubject, MyApp}
    /\ sbom = Idle
    /\ fs = Idle /\ policyFile = Idle /\ policy = Idle /\ exprs = Idle
    /\ results = Idle /\ todo = Idle /\ seen = Idle /\ scanned = Idle
    /\ violations = Idle /\ exitCode = -1 /\ listing = "ascending" /\ first = Idle /\ configFile = Idle /\ error = Idle
    /\ args = Idle
    /\ depFiles = Idle /\ detection = Idle

NextSbom == GenerateSBOM

SpecSbom == InitSbom /\ [][NextSbom]_vars

(***************************************************************************)
(* init.ts initConfig.                                                     *)
(***************************************************************************)
Templates == {"permissive", "moderate", "strict"}

\* what the files templates/<name>.json hold, as the tests of initConfig
\* state it
TemplateContent(template) ==
    CASE template = "permissive" ->
           [allow |-> <<"MIT", "ISC", "BSD-2-Clause", "BSD-3-Clause",
                        "Apache-2.0", "CC0-1.0", "Unlicense">>,
            deny |-> <<"AGPL-3.0", "GPL-2.0", "GPL-3.0">>]
      [] template = "moderate" ->
           [allow |-> <<"MIT", "ISC", "BSD-2-Clause", "BSD-3-Clause",
                        "Apache-2.0", "CC0-1.0", "Unlicense", "LGPL-2.1",
                        "LGPL-3.0", "MPL-2.0">>,
            deny |-> <<"AGPL-3.0", "GPL-2.0", "GPL-3.0">>]
      [] template = "strict" ->
           [allow |-> <<"MIT", "ISC", "BSD-2-Clause", "Apache-2.0">>,
            deny |-> <<"AGPL-3.0", "GPL-2.0", "GPL-3.0">>]

Tiers == {"free", "pro", "enterprise"}

FreeMaxDependencies == 100

\* the object initConfig serializes: { ...templateContent, tier } and, for
\* the tier with a limit, maxDependencies
ConfigOf(template, tier) ==
    LET t == TemplateContent(template)
    IN  IF tier = "free"
        THEN [allow |-> t.allow, deny |-> t.deny, tier |-> tier,
              maxDependencies |-> FreeMaxDependencies]
        ELSE [allow |-> t.allow, deny |-> t.deny, tier |-> tier]

\* a file written as JSON.stringify(config, null, 2) + '\n', kept as the
\* object the text denotes
JsonFile(config) == [exists |-> TRUE, json |-> TRUE, value |-> config]

NoConfigFile == [exists |-> FALSE, json |-> FALSE, value |-> [absent |-> TRUE]]

\* files found in the target directory before the first call
ForeignJsonFile == [exists |-> TRUE, json |-> TRUE, value |-> [existing |-> TRUE]]
ForeignTextFile ==
    [exists |-> TRUE, json |-> FALSE, value |-> [text |-> "not json"]]

NoError == "no error"
AlreadyExists == "Config file already exists"
UnknownTemplate == "Unknown template"

\* initConfig without the test of the existing file
initConfigOverwriting(file, template, force, tier) ==
    IF template \notin Templates
    THEN [file |-> file, error |-> UnknownTemplate]
    ELSE [file |-> JsonFile(ConfigOf(template, tier)), error |-> NoError]

\* initConfig(template, targetDir, { force, tier }): the file left in the
\* target directory and the error thrown
initConfig(file, template, force, tier) ==
    IF file.exists /\ ~force
    THEN [file |-> file, error |-> AlreadyExists]
    ELSE IF template \notin Templates
    THEN [file |-> file, error |-> UnknownTemplate]
    ELSE [file |-> JsonFile(ConfigOf(template, tier)), error |-> NoError]

TemplateArguments == Templates \cup {"unheard-of"}

\* one call of initConfig on the target directory
InitConfig ==
    /\ pc = "initConfig"
    /\ \E template \in TemplateArguments, force \in BOOLEAN, tier \in Tiers :
          LET r == initConfig(configFile, template, force, tier)
          IN  /\ args' = [template |-> template, force |-> force,
                          tier |-> tier, existed |-> configFile.exists]
              /\ configFile' = r.file
              /\ error' = r.error
    /\ UNCHANGED <<pc, fs, policyFile, policy, exprs, deps, results, todo, seen,
                   scanned, violations, exitCode, subject, sbom, depFiles,
                   detection,
                   listing, first>>

InitInit ==
    /\ pc = "initConfig"
    /\ configFile \in {NoConfigFile, ForeignJsonFile, ForeignTextFile}
    /\ error = NoError /\ args = Idle
    /\ depFiles = Idle /\ detection = Idle
    /\ fs = Idle /\ policyFile = Idle /\ policy = Idle /\ exprs = Idle
    /\ deps = Idle /\ results = Idle /\ todo = Idle /\ seen = Idle
    /\ scanned = Idle /\ violations = Idle /\ exitCode = -1 /\ listing = "ascending" /\ first = Idle
    /\ subject = Idle /\ sbom = Idle

NextInit == InitConfig

SpecInit == InitInit /\ [][NextInit]_vars

(***************************************************************************)
(* scanner.ts detectLicenseFromFile, called on a package directory.        *)
(***************************************************************************)
AgplFileText == <<"G","N","U"," ","A","f","f","e","r","o"," ","G","e","n",
    "e","r","a","l"," ","P","u","b","l","i","c"," ","L","i","c","e","n","s",
    "e"," ","V","e","r","s","i","o","n"," ","3",";"," ","s","e","e"," ","t",
    "h","e"," ","G","N","U"," ","G","e","n","e","r","a","l"," ","P","u","b",
    "l","i","c"," ","L","i","c","e","n","s","e"," ","(","G","P","L",")"," ",
    "v","e","r","s","i","o","n"," ","2">>
Gpl3FileText == <<"G","N","U"," ","G","e","n","e","r","a","l"," ","P","u",
    "b","l","i","c"," ","L","i","c","e","n","s","e"," ","V","e","r","s","i",
    "o","n"," ","3">>
ApacheMitFileText == <<"A","p","a","c","h","e"," ","L","i","c","e","n","s",
    "e"," ","V","e","r","s","i","o","n"," ","2",".","0",","," ","p","a","r",
    "t","s"," ","u","n","d","e","r"," ","M","I","T">>
KeywordMitFileText == <<"L","i","c","e","n","s","e","d"," ","u","n","d","e",
    "r"," ","M","I","T",".">>
KeywordGplFileText == <<"G","P","L">>

LicenseMdFile == 2
CopyingFile == 7

\* a candidate file that exists and can be read, and one that exists and
\* on which readFileSync throws
Readable(slot, content) == [file |-> slot, readable |-> TRUE, content |-> content]
Unreadable(slot) == [file |-> slot, readable |-> FALSE, content |-> <<>>]

FileTexts ==
    {MitFileText, PlainFileText, AgplFileText, Gpl3FileText, ApacheMitFileText,
     KeywordMitFileText, KeywordGplFileText}

\* what a package directory can hold under one candidate name
FilesAt(slot) ==
    {{}, {Unreadable(slot)}} \cup {{Readable(slot, t)} : t \in FileTexts}

\* a call detectLicenseFromFile(depPath)
DetectLicense ==
    /\ pc = "detectLicenseFromFile"
    /\ detection' = detectLicenseFromFile(depFiles)
    /\ pc' = "detected"
    /\ UNCHANGED <<fs, policyFile, policy, exprs, deps, results, todo, seen,
                   scanned, violations, exitCode, subject, sbom, configFile,
                   error, args, depFiles, listing, first>>

InitDetect ==
    /\ pc = "detectLicenseFromFile"
    /\ \E a \in FilesAt(LicenseFile), b \in FilesAt(LicenseMdFile),
          c \in FilesAt(CopyingFile) : depFiles = a \cup b \cup c
    /\ detection = Idle
    /\ fs = Idle /\ policyFile = Idle /\ policy = Idle /\ exprs = Idle
    /\ deps = Idle /\ results = Idle /\ todo = Idle /\ seen = Idle
    /\ scanned = Idle /\ violations = Idle /\ exitCode = -1 /\ listing = "ascending" /\ first = Idle
    /\ subject = Idle /\ sbom = Idle /\ configFile = Idle /\ error = Idle
    /\ args = Idle

NextDetect == DetectLicense

SpecDetect == InitDetect /\ [][NextDetect]_vars

(***************************************************************************)
(* Properties of the policy evaluator (SpecPolicy).                        *)
(***************************************************************************)
Evaluated == pc = "evaluated"

DepIndices == 1..Len(deps)

PartsOf(i) == parseSPDXParts(deps[i].license)

PartSet(i) == LET parts == PartsOf(i) IN {parts[p] : p \in 1..Len(parts)}

SomePartMatches(i, list) ==
    LET parts == PartsOf(i)
    IN  \E p \in 1..Len(parts) :
            \E k \in 1..Len(list) : matchesLicense(parts[p], list[k])

\* C3: deny overrides allow.  Whenever the deny list is non-empty and some
\* part of a dependency's license matches a deny entry, the verdict is
\* denied, whatever the allow list and failOnUnknown are.
C3_DenyOverridesAllow ==
    Evaluated =>
        \A i \in DepIndices :
            (Len(policy.deny) > 0 /\ SomePartMatches(i, policy.deny))
                => results[i].verdict = "denied"

\* a license part on both lists, evaluated to denied
C3_Witness ==
    /\ Evaluated
    /\ \E i \in DepIndices :
         /\ SomePartMatches(i, policy.deny)
         /\ SomePartMatches(i, policy.allow)
         /\ \E part \in PartSet(i) :
              /\ \E k \in 1..Len(policy.deny) :
                    matchesLicense(part, policy.deny[k])
              /\ \E k \in 1..Len(policy.allow) :
                    matchesLicense(part, policy.allow[k])
         /\ results[i].verdict = "denied"

\* two strings equal up to the case of their letters
SameIgnoringCase(x, y) ==
    /\ Len(x) = Len(y)
    /\ \A j \in 1..Len(x) :
         \/ x[j] = y[j]
         \/ x[j] \in DOMAIN LowerOf /\ LowerOf[x[j]] = y[j]
         \/ y[j] \in DOMAIN LowerOf /\ LowerOf[y[j]] = x[j]

\* the part is the entry, or the entry followed at once by a hyphen
EntryThenHyphen(part, entry) ==
    /\ Len(entry) <= Len(part)
    /\ SameIgnoringCase(SubSeq(part, 1, Len(entry)), entry)
    /\ Len(part) = Len(entry) \/ part[Len(entry) + 1] = "-"

PolicyEntries ==
    {policy.allow[k] : k \in 1..Len(policy.allow)}
        \cup {policy.deny[k] : k \in 1..Len(policy.deny)}

\* C5: a license part matches a list entry exactly when, ignoring case, it
\* equals the entry or begins with the entry immediately followed by a
\* hyphen; AGPL-3.0-only matches AGPL-3.0, GPL-3.0 does not match GPL-3,
\* GPL-30-custom does not match GPL-3.0, and containing the entry as a
\* substring is not a match.
C5_MatchIsEqualOrHyphenPrefix ==
    /\ matchesLicense(AGPL30only, AGPL30)
    /\ ~matchesLicense(GPL30, GPL3)
    /\ ~matchesLicense(GPL30custom, GPL30)
    /\ Evaluated =>
         \A i \in DepIndices :
            \A part \in PartSet(i) :
                \A entry \in PolicyEntries :
                    matchesLicense(part, entry) <=> EntryThenHyphen(part, entry)

\* AGPL-3.0-only denied by the entry AGPL-3.0 while the entry GPL-3.0,
\* a substring of it, would not have matched
C5_Witness ==
    /\ Evaluated
    /\ policy.deny = <<AGPL30>>
    /\ \E i \in DepIndices :
         /\ deps[i].license = AGPL30only
         /\ includes(deps[i].license, GPL30)
         /\ ~matchesLicense(deps[i].license, GPL30)
         /\ results[i].verdict = "denied"

\* C6: with empty allow and deny lists the verdict is unknown exactly when
\* failOnUnknown is set and the license is the string UNKNOWN; otherwise
\* it is allowed.
C6_EmptyListsUnknownOnlyWhenFlagged ==
    (Evaluated /\ policy.allow = <<>> /\ policy.deny = <<>>) =>
        \A i \in DepIndices :
            /\ results[i].verdict = "unknown"
                 <=> (policy.failOnUnknown /\ deps[i].license = UNKNOWN)
            /\ results[i].verdict \in {"unknown", "allowed"}

\* empty lists, failOnUnknown set: UNKNOWN flagged, an expression that only
\* contains UNKNOWN as one alternative allowed
C6_Witness ==
    /\ Evaluated
    /\ policy.allow = <<>> /\ policy.deny = <<>> /\ policy.failOnUnknown
    /\ Len(deps) = 2
    /\ deps[2].license = UNKNOWN /\ results[2].verdict = "unknown"
    /\ deps[1].license # UNKNOWN /\ results[1].verdict = "allowed"
    /\ UNKNOWN \in PartSet(1)

\* C7: with a non-empty allow list and no part on the deny list, the
\* verdict is allowed when some part matches an allow entry and unknown
\* otherwise, whatever failOnUnknown is.
C7_AllowListDecides ==
    Evaluated =>
        \A i \in DepIndices :
            (/\ Len(policy.allow) > 0
             /\ ~(Len(policy.deny) > 0 /\ SomePartMatches(i, policy.deny)))
                => results[i].verdict =
                     IF SomePartMatches(i, policy.allow)
                     THEN "allowed" ELSE "unknown"

\* UNKNOWN, not allow-listed, failOnUnknown off: verdict unknown
C7_Witness ==
    /\ Evaluated
    /\ Len(policy.allow) > 0 /\ ~policy.failOnUnknown
    /\ \E i \in DepIndices :
         /\ deps[i].license = UNKNOWN
         /\ ~SomePartMatches(i, policy.allow)
         /\ results[i].verdict = "unknown"

\* whitespace, the word OR, whitespace
IsOrSeparator(sep) ==
    \E k \in 2..(Len(sep) - 2) :
        /\ sep[k] = "O" /\ sep[k + 1] = "R"
        /\ \A j \in 1..(k - 1) : IsWhitespace(sep[j])
        /\ \A j \in (k + 2)..Len(sep) : IsWhitespace(sep[j])

RECURSIVE Pieces(_, _)
\* the alternatives of a written expression: its identifiers, those joined
\* by something that is no OR separator staying in one piece
Pieces(atoms, seps) ==
    IF Len(atoms) = 1 THEN <<atoms[1]>>
    ELSE LET rest == Pieces(Tail(atoms), Tail(seps))
         IN  IF IsOrSeparator(seps[1])
             THEN <<atoms[1]>> \o rest
             ELSE <<atoms[1] \o seps[1] \o Head(rest)>> \o Tail(rest)

RECURSIVE SplitOn(_, _, _, _)
\* the pieces of s between the occurrences of the literal string sep
SplitOn(s, sep, start, i) ==
    IF i + Len(sep) - 1 > Len(s) THEN <<SubSeq(s, start, Len(s))>>
    ELSE IF SubSeq(s, i, i + Len(sep) - 1) = sep
         THEN <<SubSeq(s, start, i - 1)>>
                  \o SplitOn(s, sep, i + Len(sep), i + Len(sep))
         ELSE SplitOn(s, sep, start, i + 1)

\* splitting on the literal " OR ", pieces trimmed, empty pieces dropped
LiteralAlternatives(license) ==
    SelectSeq(Map(trim, SplitOn(license, SepSpaces, 1, 1)), IsTruthyString)

SomeMatches(alts, list) ==
    \E p \in 1..Len(alts) :
        \E k \in 1..Len(list) : EntryThenHyphen(alts[p], list[k])

DisjunctionRule(i, alts) ==
    /\ SomeMatches(alts, policy.deny) => results[i].verdict = "denied"
    /\ (/\ ~SomeMatches(alts, policy.deny)
        /\ Len(policy.allow) > 0
        /\ SomeMatches(alts, policy.allow))
           => results[i].verdict = "allowed"

RECURSIVE Reached(_), ScopeListed(_), Occurs(_)
Reached(i) ==
    LET p == fs.nodes[i].parent
    IN  IF p # 0 /\ ScopeListed(p) THEN TRUE
        ELSE /\ IF p = 0 THEN fs.exists ELSE Occurs(p)
             /\ ~IsHidden(Dir(i).name)
             /\ ~IsScope(Dir(i).name)

ScopeListed(s) ==
    LET p == fs.nodes[s].parent
    IN  /\ IsScope(Dir(s).name)
        /\ IF p = 0 THEN fs.exists ELSE ~ScopeListed(p) /\ Occurs(p)

Occurs(i) == Reached(i) /\ Dir(i).manifest = "ok"

Occurrences == {i \in Nodes : Occurs(i)}

\* the package in whose store entry i lies, 0 for the root store
Owner(i) ==
    LET p == fs.nodes[i].parent
    IN  IF p # 0 /\ ScopeListed(p) THEN fs.nodes[p].parent ELSE p

FullName(i) ==
    LET p == fs.nodes[i].parent
    IN  IF p # 0 /\ ScopeListed(p)
        THEN Dir(p).name \o <<"/">> \o Dir(i).name
        ELSE Dir(i).name

VersionOf(i) == IF Dir(i).version = <<>> THEN DefaultVersion ELSE Dir(i).version

RECURSIVE DepthOf(_)
DepthOf(i) == IF Owner(i) = 0 THEN 0 ELSE DepthOf(Owner(i)) + 1

PairOf(i) == <<FullName(i), VersionOf(i)>>

SamePair(i) == {j \in Occurrences : PairOf(j) = PairOf(i)}

Scanned == pc = "scanned"

\* C1: after scanDeep the result holds exactly one record per distinct
\* (name, version) pair met during the walk: no two records share name and
\* version, and there are as many records as distinct pairs.
C1_OneRecordPerPair ==
    Scanned =>
        /\ \A k, m \in 1..Len(scanned) :
              (scanned[k].name = scanned[m].name
                  /\ scanned[k].version = scanned[m].version) => k = m
        /\ Len(scanned) = Cardinality({PairOf(i) : i \in Occurrences})

Count(xs, x) == Cardinality({k \in 1..Len(xs) : xs[k] = x})

\* C2: for every (name, version) pair met, the record of that pair has the
\* least depth of the pair's occurrences, and its dependedBy holds the name
\* of each package that directly introduced an occurrence exactly once, and
\* nothing twice; an occurrence in the root store adds no parent.
C2_MinDepthAllParentsOnce ==
    Scanned =>
        \A i \in Occurrences :
            \E k \in 1..Len(scanned) :
                /\ scanned[k].name = FullName(i)
                /\ scanned[k].version = VersionOf(i)
                /\ \A j \in SamePair(i) : scanned[k].depth <= DepthOf(j)
                /\ \E j \in SamePair(i) : scanned[k].depth = DepthOf(j)
                /\ \A j \in SamePair(i) :
                      Owner(j) # 0 =>
                          Count(scanned[k].dependedBy, FullName(Owner(j))) = 1
                /\ \A x \in 1..Len(scanned[k].dependedBy) :
                      Count(scanned[k].dependedBy, scanned[k].dependedBy[x]) = 1
                /\ (\A j \in SamePair(i) : Owner(j) = 0)
                      => scanned[k].dependedBy = <<>>

(***************************************************************************)
(* Properties of the check command (SpecCheck).                            *)
(***************************************************************************)
\* the loaded policy as the evaluator reads it: a missing list is empty
EvaluatorPolicy ==
    [allow |-> policy.allow.items, deny |-> policy.deny.items,
     failOnUnknown |-> policy.failOnUnknown]

Exited == pc = "exited" /\ policy # Idle

\* C8: the check command exits 1 when some scanned dependency has a denied
\* or unknown verdict under the loaded policy, and 0 when none has.
C8_ExitCodeFollowsVerdicts ==
    Exited =>
        exitCode =
            IF \E i \in DepIndices :
                  Verdict(EvaluatorPolicy, deps[i]) \in {"denied", "unknown"}
            THEN 1 ELSE 0

\* the Dep of an installed package, as the scanner reads its manifest
DepOf(i) ==
    [name |-> FullName(i), version |-> VersionOf(i),
     license |-> normalizeLicense(OrElse(Dir(i).license, Dir(i).licenses)),
     path |-> <<i>>]

\* a package that breaks the loaded policy, by verdict and for checkPolicy
BreaksPolicy(i) ==
    /\ Verdict(EvaluatorPolicy, DepOf(i)) \in {"denied", "unknown"}
    /\ checkPolicy(<<DepOf(i)>>, policy) # <<>>

\* C9: the gate covers the transitive tree: a package that breaks the
\* policy, installed at any depth of the nested node_modules hierarchy,
\* makes the check command exit 1.
C9_GateCoversNestedPackages ==
    Exited =>
        ((\E i \in Occurrences : BreaksPolicy(i)) => exitCode = 1)

\* C10: in checkPolicy a license on the deny list always fails: with a
\* non-empty deny list, every dependency whose license is a deny entry gets
\* a violation, whatever the allow list holds.
C10_DeniedLicenseAlwaysViolates ==
    pc = "check_exit" =>
        \A i \in DepIndices :
            (/\ policy.deny.present
             /\ Contains(policy.deny.items, deps[i].license))
                => \E v \in 1..Len(violations) : violations[v].dep = deps[i]

(***************************************************************************)
(* Properties of the policy loaders (SpecLoad, SpecCheck).                 *)
(***************************************************************************)
\* C11: when the policy file does not exist, the policy module's loader
\* yields a policy under which a dependency licensed AGPL-3.0, GPL-3.0,
\* SSPL-1.0 or EUPL is denied.
C11_AbsentFileDeniesStrongCopyleft ==
    (pc = "evaluated" /\ ~policyFile.exists) =>
        \A i \in DepIndices :
            deps[i].license \in StrongCopyleft => results[i].verdict = "denied"

\* the same default for the loader of the check command
CliAbsentFileDeniesStrongCopyleft ==
    (pc = "check_exit" /\ ~policyFile.exists) =>
        \A i \in DepIndices :
            deps[i].license \in StrongCopyleft
                => \E v \in 1..Len(violations) : violations[v].dep = deps[i]

(***************************************************************************)
(* Properties of the license recorded by scanDeep (SpecLicense).           *)
(***************************************************************************)
Last(xs) == xs[Len(xs)]

\* the package directory a record was created from
DirOfRecord(r) == Dir(Last(r.path))

DeclaredLicense(n) == normalizeLicense(OrElse(n.license, n.licenses))

TxtGrantedFreeOfCharge ==
    <<"P","e","r","m","i","s","s","i","o","n"," ","i","s"," ","h","e","r","e",
      "b","y"," ","g","r","a","n","t","e","d",","," ","f","r","e","e"," ","o",
      "f"," ","c","h","a","r","g","e">>

HasMitNotice(n) ==
    \E f \in n.files :
        /\ f.file = LicenseFile /\ f.readable
        /\ includes(f.content, TxtGrantedFreeOfCharge)

Valid == {i \in Nodes : Occurs(i)}

\* C13: scanDeep never aborts: it returns no record when the root has no
\* node_modules; a directory whose package.json is missing or malformed
\* gives no record and raises no error, and every entry with a valid
\* manifest is in the result.
C13_NeverAborts ==
    /\ pc # "thrown"
    /\ Scanned =>
          /\ ~fs.exists => scanned = <<>>
          /\ \A k \in 1..Len(scanned) : DirOfRecord(scanned[k]).manifest = "ok"
          /\ \A i \in Valid :
                \E k \in 1..Len(scanned) :
                    /\ scanned[k].name = FullName(i)
                    /\ scanned[k].version = VersionOf(i)

\* the same with the manifests that are missing or are not JSON only
C13_SkipsMissingAndUnparseable ==
    (\A i \in Nodes : Dir(i).manifest # "null") => C13_NeverAborts

(***************************************************************************)
(* Properties of generateSBOM (SpecSbom).                                  *)
(***************************************************************************)
Generated == pc = "generated"

\* C14: the document has bomFormat CycloneDX, specVersion 1.5, version 1,
\* and one component per input dependency in input order, each of type
\* library with the dependency's name, version, license id and the purl
\* pkg:npm/<name>@<version>.
C14_OneComponentPerDependency ==
    Generated =>
        /\ sbom.bomFormat = "CycloneDX"
        /\ sbom.specVersion = "1.5"
        /\ sbom.version = 1
        /\ Len(sbom.components) = Len(deps)
        /\ \A i \in DepIndices :
              LET c == sbom.components[i]
              IN  /\ c.type = "library"
                  /\ c.name = deps[i].name
                  /\ c.version = deps[i].version
                  /\ Len(c.licenses) >= 1
                  /\ c.licenses[1].license.id = deps[i].license
                  /\ SubSeq(c.purl, 1, 8) = PurlPrefix
                  /\ SubSeq(c.purl, 9, 8 + Len(deps[i].name)) = deps[i].name
                  /\ c.purl[9 + Len(deps[i].name)] = "@"
                  /\ SubSeq(c.purl, 10 + Len(deps[i].name), Len(c.purl))
                         = deps[i].version

C14_Witness ==
    /\ Generated
    /\ Len(deps) = 2
    /\ deps[1].name = NameScoped /\ deps[2].name = NameX
    /\ sbom.components[1].purl =
          <<"p","k","g",":","n","p","m","/","@","s","/","x","@","1",".","0",
            ".","0">>

\* C15: given a subject name as second argument, the document's
\* metadata.component.name is that name and metadata.tools[0].name is
\* licensewall.
C15_SubjectNameInMetadata ==
    (Generated /\ subject # NoSubject) =>
        /\ "component" \in DOMAIN sbom.metadata
        /\ sbom.metadata.component.name = subject
        /\ sbom.metadata.tools[1].name = "licensewall"

\* the tool name alone
ToolNameIsLicensewall ==
    Generated => sbom.metadata.tools[1].name = "licensewall"

(***************************************************************************)
(* Properties of initConfig (SpecInit).                                    *)
(***************************************************************************)
\* C16: in any sequence of initConfig calls, a call made while the file
\* exists and force is false throws "already exists" and leaves the file as
\* it was; any call that throws leaves the file as it was; a call with force
\* that does not throw leaves the selected template with the tier fields,
\* and a call with force and a known template does not throw.
C16_ExistingConfigKeptUnlessForced ==
    [][/\ (configFile.exists /\ ~args'.force)
              => (error' = AlreadyExists /\ configFile' = configFile)
       /\ error' # NoError => configFile' = configFile
       /\ (args'.force /\ args'.template \in Templates) => error' = NoError
       /\ (args'.force /\ error' = NoError)
              => /\ configFile'.exists /\ configFile'.json
                 /\ configFile'.value.allow = TemplateContent(args'.template).allow
                 /\ configFile'.value.deny = TemplateContent(args'.template).deny
                 /\ configFile'.value.tier = args'.tier
                 /\ ("maxDependencies" \in DOMAIN configFile'.value)
                        <=> args'.tier = "free"
                 /\ args'.tier = "free"
                        => configFile'.value.maxDependencies = 100]_vars

\* a forced call has replaced a file that was there
C16_Witness ==
    /\ args # Idle
    /\ args.existed /\ args.force /\ args.template = "strict"
    /\ args.tier = "pro"
    /\ error = NoError
    /\ configFile = JsonFile(ConfigOf("strict", "pro"))

\* an unforced call on an existing file has thrown
C16_RefusedWitness ==
    /\ args # Idle
    /\ args.existed /\ ~args.force
    /\ error = AlreadyExists
    /\ configFile = ForeignTextFile

(***************************************************************************)
(* Properties of scanDeep's recursion (Spec).                              *)
(***************************************************************************)
\* an occurrence met after another occurrence of the same (name, version):
\* processDep merges it (entries are numbered in the order of the walk)
IsDuplicate(i) == \E j \in SamePair(i) : j < i

\* the occurrences lying in the nested store of a duplicate occurrence
UnderDuplicate == {i \in Occurrences : Owner(i) # 0 /\ IsDuplicate(Owner(i))}

AccountedFor(i) ==
    \E k \in 1..Len(scanned) :
        /\ scanned[k].name = FullName(i)
        /\ scanned[k].version = VersionOf(i)
        /\ scanned[k].depth <= DepthOf(i)
        /\ Contains(scanned[k].dependedBy, FullName(Owner(i)))

\* C17: scanDeep walks the nested store of a package on every encounter,
\* merged ones included: every package with a valid manifest in the nested
\* store of a duplicate occurrence is in the result, its depth at most that
\* of the occurrence and its dependedBy holding the duplicate's name.
C17_RecursesUnderDuplicates ==
    Scanned => \A i \in UnderDuplicate : AccountedFor(i)

\* no two occurrences of different (name, version) format to one key
KeysDistinct ==
    \A i, j \in Occurrences :
        KeyOf(FullName(i), VersionOf(i)) = KeyOf(FullName(j), VersionOf(j))
            => PairOf(i) = PairOf(j)

\* the same on the trees whose keys do not collide
RecursesUnderDuplicatesKeysDistinct ==
    (Scanned /\ KeysDistinct) => \A i \in UnderDuplicate : AccountedFor(i)

UnderDuplicateReached ==
    Scanned /\ KeysDistinct /\ UnderDuplicate # {}

(***************************************************************************)
(* Properties of scanDeep on stores with symbolic links (SpecLinks).       *)
(***************************************************************************)
\* the packages entered on the recursion branch of a pending processDep call
Repeats(path) ==
    \E k, m \in 1..Len(path) : k < m /\ path[k] = path[m]

\* C18: scanDeep guards against symbolic-link loops by tracking the paths
\* visited on each recursion branch: no store already on the current branch
\* is walked again, so no processDep call is made for a package directory
\* that the branch has entered before.
C18_NoStoreWalkedTwiceOnBranch ==
    pc = "walking" => \A k \in 1..Len(todo) : ~Repeats(todo[k].path)

(***************************************************************************)
(* Properties of detectLicenseFromFile (SpecDetect).                       *)
(***************************************************************************)
Detected == pc = "detected"

\* some candidate file exists and is read, and no rule classifies it
FoundUnclassifiable ==
    \E f \in depFiles :
        /\ f.readable
        /\ \A g \in depFiles : (g.readable => f.file <= g.file)
        /\ ClassifyLicenseText(toUpperCase(f.content)) = NoLicense

\* C19: the result of detectLicenseFromFile tells "a license file exists
\* but no rule matches it" from "no candidate license file exists": the
\* value returned in the first situation is not the value returned in the
\* second.
C19_UnclassifiableDistinctFromMissing ==
    (Detected /\ FoundUnclassifiable)
        => detection # detectLicenseFromFile({})

\* the rules that test for the tokens of one license, in the order of the
\* list, each with whether it matches the upper-cased text
SpecificRules(upper) ==
    <<[id |-> Apache20,
       hit |-> includes(upper, TxtApache)
                 /\ (includes(upper, TxtVersion20) \/ includes(upper, TxtApache20))],
      [id |-> MIT,
       hit |-> includes(upper, TxtMitLicense)
                 \/ includes(upper, TxtPermissionGranted)],
      [id |-> ISC,
       hit |-> includes(upper, TxtIscLicense)
                 \/ (includes(upper, TxtIsc) /\ includes(upper, TxtPermissionToUse))],
      [id |-> BSD3Clause,
       hit |-> includes(upper, TxtBsd3Space) \/ includes(upper, TxtBsd3Hyphen)],
      [id |-> BSD2Clause,
       hit |-> includes(upper, TxtBsd2Space) \/ includes(upper, TxtBsd2Hyphen)],
      [id |-> AGPL30,
       hit |-> includes(upper, TxtGnuAffero) /\ includes(upper, TxtVersion3)],
      [id |-> GPL30,
       hit |-> includes(upper, TxtGnuGpl) /\ includes(upper, TxtVersion3)],
      [id |-> GPL20,
       hit |-> includes(upper, TxtGnuGpl) /\ includes(upper, TxtVersion2)],
      [id |-> LGPL, hit |-> includes(upper, TxtGnuLesser)],
      [id |-> MPL20,
       hit |-> includes(upper, TxtMozilla) /\ includes(upper, Txt20)],
      [id |-> Unlicense,
       hit |-> includes(upper, TxtTheUnlicense)
                 \/ (includes(upper, TxtUnlicense)
                        /\ includes(upper, TxtPublicDomain))]>>

\* the single-keyword rules, in the order of the list
KeywordRules(upper) ==
    <<[id |-> MIT, hit |-> HasWord(upper, TxtMit)],
      [id |-> ISC, hit |-> HasWord(upper, TxtIsc)],
      [id |-> BSD, hit |-> HasWord(upper, TxtBsd)],
      [id |-> GPL, hit |-> HasWord(upper, TxtGpl)],
      [id |-> Apache20, hit |-> HasWord(upper, TxtApache)]>>

Hits(rules) == {k \in 1..Len(rules) : rules[k].hit}

\* the identifier of the first rule of a list that matches
FirstMatch(rules) ==
    rules[CHOOSE k \in Hits(rules) : \A m \in Hits(rules) : k <= m].id

ReadableFiles == {f \in depFiles : f.readable}

\* the readable candidate that comes first in the order of the file names
FirstReadable ==
    CHOOSE f \in ReadableFiles : \A g \in ReadableFiles : f.file <= g.file

\* C20: detectLicenseFromFile classifies the first readable candidate file
\* by the first matching rule of the ordered list: a single-keyword result
\* is returned only when no specific rule matches; a text matching the
\* AGPL-3 rule is never classified GPL-3.0, GPL-2.0 or GPL; an unreadable
\* candidate is skipped for the next file name, and nothing is raised.
C20_FirstReadableFirstMatch ==
    Detected =>
        IF ReadableFiles = {}
        THEN detection = NoLicense
        ELSE LET upper == toUpperCase(FirstReadable.content)
                 specific == SpecificRules(upper)
                 keyword == KeywordRules(upper)
             IN  /\ Hits(specific) # {} => detection = FirstMatch(specific)
                 /\ (Hits(specific) = {} /\ Hits(keyword) # {})
                        => detection = FirstMatch(keyword)
                 /\ (Hits(specific) = {} /\ Hits(keyword) = {})
                        => detection = NoLicense
                 /\ specific[6].hit => detection \notin {GPL30, GPL20, GPL}

\* an unreadable LICENSE is passed over and LICENSE.md, an AGPL text that
\* the GPL rules and keywords match too, is classified
C20_Witness ==
    /\ Detected
    /\ Unreadable(LicenseFile) \in depFiles
    /\ Readable(LicenseMdFile, AgplFileText) \in depFiles
    /\ SpecificRules(toUpperCase(AgplFileText))[7].hit
    /\ SpecificRules(toUpperCase(AgplFileText))[8].hit
    /\ KeywordRules(toUpperCase(AgplFileText))[4].hit
    /\ detection = AGPL30

(***************************************************************************)
(* Properties of scanDeep under two listing orders (SpecOrder).            *)
(***************************************************************************)
Elements(xs) == {xs[k] : k \in 1..Len(xs)}

\* a result as a set of records, dependedBy read as a set
AsSet(records) ==
    {[name |-> r.name, version |-> r.version, license |-> r.license,
      path |-> r.path, depth |-> r.depth,
      dependedBy |-> Elements(r.dependedBy)] : r \in Elements(records)}

ScannedTwice == pc = "scanned" /\ listing = "descending"

\* C21: the result of scanDeep, as a set of records with dependedBy read as
\* a set, is the same for two orders in which the directories of one tree
\* are listed: the records agree on name, version, depth, dependedBy,
\* license and path.
C21_ResultIndependentOfListingOrder ==
    ScannedTwice => AsSet(scanned) = AsSet(first)

\* the part of a record the merge computes from all occurrences
MergedPart(records) ==
    {[name |-> r.name, version |-> r.version, depth |-> r.depth,
      dependedBy |-> Elements(r.dependedBy)] : r \in Elements(records)}

\* name, version, depth and dependedBy alone do not depend on the order
MergedPartIndependentOfListingOrder ==
    ScannedTwice => MergedPart(scanned) = MergedPart(first)

TwoCopiesScannedTwice ==
    /\ ScannedTwice
    /\ \E i, j \in Occurrences : i # j /\ PairOf(i) = PairOf(j)

====
